---- MODULE Spec2Model ----
(***************************************************************************)
(* A model of pysapgui: the control-tree search (utils.py), the control    *)
(* facade (element.py), the row iteration strategies (element.py,          *)
(* item_element.py) and session acquisition (session.py, connection.py).   *)
(*                                                                         *)
(* The vendor object model is the environment: a control tree, the         *)
(* attributes a control exposes, the list of sessions of a connection.     *)
(* Each subsystem has its own specification over the shared variables.     *)
(***************************************************************************)
EXTENDS Integers, Sequences, FiniteSets, TLC

(***************************************************************************)
(* Bounds                                                                  *)
(***************************************************************************)
MaxNodes == 3        \* controls below the base element of a tree
MaxPathLen == 3      \* characters of a search path
MaxScroll == 3       \* largest scrollbar maximum
MaxAmount == 2       \* largest scroll amount, in either sign
MaxRows == 2         \* native rows of a table-like control
MaxCols == 2         \* native columns of a table-like control
MaxChildren == 2     \* children of a control iterated by the fallback
MaxSessions == 2     \* sessions a connection can hold
MaxPresses == 2      \* presses counted on one control
MaxDepth == 3        \* nested calls before the interpreter gives up
MaxConnections == 2  \* running application instances

(***************************************************************************)
(* Values shared by the subsystems                                         *)
(***************************************************************************)
None == [t |-> "None"]
Elem(n) == [t |-> "elem", v |-> n]
List(s) == [t |-> "list", v |-> s]

\* Python truthiness of a search result: None and [] are falsy, a control
\* object is truthy.
Truthy(x) == IF x.t = "None" THEN FALSE
             ELSE IF x.t = "list" THEN x.v /= <<>>
             ELSE TRUE

VARIABLES
    \* ---- control tree searched by search_path
    nnodes,          \* number of controls below the base element (node 0)
    parent,          \* parent[n] for n in 1..nnodes
    ident,           \* ident[n]: the Id of control n, a sequence of characters
    \* ---- one call of search_path
    sp_pc,           \* "idle", "loop", "done"
    sp_parts,        \* re_path.split('/')
    sp_return_all,   \* the mode flag
    sp_i,            \* index of the level being processed (1-based)
    sp_current,      \* current_level
    sp_result,       \* the value returned
    sp_sizes,        \* history: len(next_level) of every level processed
    \* ---- one control facade (Element) and the calls made on it
    element,         \* the attributes the underlying control exposes
    call,            \* history: the last facade call and the control before it
    ret,             \* what the last call returned or raised
    \* ---- one table-like control and a row iteration over it
    table,           \* markers, native cells and children of the control
    emitted,         \* the rows each_row has yielded, in order
    \* ---- the sessions of the connection, one Session and one facade
    live,            \* connection.Sessions: handle and Busy flag, by index
    sess,            \* the Session object: session, session_id, connection
    fac,             \* the facade built by find_element and its control
    controls,        \* per session handle, the state of its control
    \* ---- the running application instances and one Connection
    connections,     \* ScriptingEngine.Connections: the handles, by index
    conn             \* the Connection object: connection handle, connection_id

search_vars == <<nnodes, parent, ident, sp_pc, sp_parts, sp_return_all,
                 sp_i, sp_current, sp_result, sp_sizes>>

facade_vars == <<element, call, ret>>

rows_vars == <<table, emitted>>

session_vars == <<live, sess, fac, controls>>

connection_vars == <<connections, conn>>

vars == <<search_vars, facade_vars, rows_vars, session_vars, connection_vars>>

Return(v) == [t |-> "return", v |-> v]
Raise(exc, arg) == [t |-> "raise", exc |-> exc, arg |-> arg]
NoCall == [op |-> "none"]
NoValue == "NoValue"

\* self.__column_title = None
NoTitle == "<None>"

\* A control exposing none of the optional attributes, behind a facade that
\* has just been built (column_title is the facade's own field).
PlainControl ==
    [Id |-> <<"x">>,
     hasSelected |-> FALSE, Selected |-> FALSE,
     hasChecked |-> FALSE, Checked |-> FALSE,
     hasScrollbar |-> FALSE, position |-> 0, minimum |-> 0, maximum |-> 0,
     hasColumn |-> FALSE, Column |-> 0,
     hasRow |-> FALSE, Row |-> 0,
     hasTooltip |-> FALSE, tooltip |-> "",
     column_title |-> NoTitle]

\* A control with no marker, no native cell and no Children attribute.
NoTable ==
    [text |-> {}, isTable |-> FALSE, nrows |-> 0, ncols |-> 0,
     cells |-> <<>>, order |-> <<>>, hasChildren |-> FALSE,
     children |-> <<>>]

Handles == 1..MaxSessions
NoHandle == 0

\* session_id: None or an index.
NoIndex == [some |-> FALSE]
Index(i) == [some |-> TRUE, v |-> i]

NoSession ==
    [alive |-> FALSE, session |-> NoHandle, session_id |-> NoIndex,
     connection |-> "none"]
NoFacade == [built |-> FALSE, owner |-> NoHandle, captured |-> NoHandle]
FreshControl == [text |-> "", presses |-> 0]

NoConnection == [alive |-> FALSE, connection |-> NoHandle,
                 connection_id |-> NoIndex]

ConnectionIdle ==
    /\ connections = <<>>
    /\ conn = NoConnection

SessionIdle ==
    /\ live = <<>>
    /\ sess = NoSession
    /\ fac = NoFacade
    /\ controls = [h \in Handles |-> FreshControl]

RowsIdle ==
    /\ table = NoTable
    /\ emitted = <<>>

FacadeIdle ==
    /\ element = PlainControl
    /\ call = NoCall
    /\ ret = Return(NoValue)

(***************************************************************************)
(* utils.py: search_path and search_element                                *)
(***************************************************************************)
PathChars == {"a", "[", "/"}
IdSet == { <<"A">>, <<"b">>, <<"a", "[">> }

Paths == UNION { [1..n -> PathChars] : n \in 0..MaxPathLen }

\* str.split('/'): the segments between the slashes, empty ones included.
RECURSIVE SplitFrom(_, _, _)
SplitFrom(s, k, cur) ==
    IF k > Len(s) THEN <<cur>>
    ELSE IF s[k] = "/" THEN <<cur>> \o SplitFrom(s, k + 1, <<>>)
    ELSE SplitFrom(s, k + 1, Append(cur, s[k]))

Split(s) == SplitFrom(s, 1, <<>>)

\* re.sub(r'(?<!\\)(\[)', r'\\[', part): every '[' not preceded by a
\* backslash becomes the two-character token \[ (no path of the model holds
\* a backslash).
EscapeBrackets(part) ==
    [k \in 1..Len(part) |-> IF part[k] = "[" THEN "\\[" ELSE part[k]]

Lower(c) == IF c = "A" THEN "a" ELSE c

\* The character a regex token stands for: \[ is a literal bracket.
TokenChar(tok) == IF tok = "\\[" THEN "[" ELSE tok

\* re.search(pattern, id, re.IGNORECASE) for a pattern of literal tokens:
\* the pattern occurs somewhere in id, letter case ignored.
re_search(pattern, id) ==
    \E k \in 0..(Len(id) - Len(pattern)) :
        \A j \in 1..Len(pattern) :
            Lower(id[k + j]) = Lower(TokenChar(pattern[j]))

RECURSIVE SortedSeq(_)
SortedSeq(S) ==
    IF S = {} THEN <<>>
    ELSE LET m == CHOOSE x \in S : \A y \in S : x <= y
         IN <<m>> \o SortedSeq(S \ {m})

RECURSIVE Reverse(_)
Reverse(s) == IF s = <<>> THEN <<>> ELSE Append(Reverse(Tail(s)), Head(s))

\* iter(element.Children) in reverse: a plausible slip of the iteration.
ChildrenReversed(n) ==
    Reverse(SortedSeq({m \in 1..nnodes : parent[m] = n}))

\* iter(element.Children): the direct children in the control's own order.
\* A control without a Children attribute, one whose Children is not
\* iterable (TypeError -> None) and one with no children all give a falsy
\* result; they are the controls with no children here.
Children(n) == SortedSeq({m \in 1..nnodes : parent[m] = n})

RECURSIVE search_element(_, _, _)
RECURSIVE SearchChildren(_, _, _, _, _)

\* The for loop of search_element over children kids[k..], found_elements
\* being what has been collected so far.
SearchChildren(kids, k, pattern, return_all, found_elements) ==
    IF k > Len(kids)
    THEN IF return_all /\ found_elements /= <<>> THEN List(found_elements)
         ELSE IF ~return_all THEN None ELSE List(<<>>)
    ELSE
      LET child == kids[k]
          hit == re_search(pattern, ident[child])
      IN IF hit /\ ~return_all THEN Elem(child)
         ELSE
           LET found1 == IF hit THEN Append(found_elements, child)
                         ELSE found_elements
               sub_found == search_element(child, pattern, return_all)
           IN IF Truthy(sub_found)
              THEN IF sub_found.t = "list"
                   THEN IF ~return_all THEN Elem(sub_found.v[1])
                        ELSE SearchChildren(kids, k + 1, pattern, return_all,
                                            found1 \o sub_found.v)
                   ELSE IF ~return_all THEN sub_found
                        ELSE SearchChildren(kids, k + 1, pattern, return_all,
                                            Append(found1, sub_found.v))
              ELSE SearchChildren(kids, k + 1, pattern, return_all, found1)

search_element(ctrl, pattern, return_all) ==
    SearchChildren(Children(ctrl), 1, pattern, return_all, <<>>)

\* The mode every level is searched in, were return_all passed through.
LevelModeAlways(i, nparts, return_all) == return_all

\* (i == len(parts) - 1) and return_all, with i counted from 1.
LevelMode(i, nparts, return_all) == (i = nparts) /\ return_all

\* The inner loop of search_path over current_level[k..]: extend next_level
\* by what search_element finds below each surviving control.
RECURSIVE NextLevel(_, _, _, _, _)
NextLevel(cur, k, pattern, mode, next_level) ==
    IF k > Len(cur) THEN next_level
    ELSE LET found == search_element(cur[k], pattern, mode)
         IN IF Truthy(found)
            THEN IF found.t = "list"
                 THEN NextLevel(cur, k + 1, pattern, mode, next_level \o found.v)
                 ELSE NextLevel(cur, k + 1, pattern, mode,
                                Append(next_level, found.v))
            ELSE NextLevel(cur, k + 1, pattern, mode, next_level)

\* Returning what the earlier levels had found, a partial result.
EmptyLevelPartial(current_level) == List(current_level)

\* if not next_level: return []
EmptyLevelResult(current_level) == List(<<>>)

\* The tail of search_path: wrap the survivors, keep the first one in
\* first-match mode.  element_wrapper builds a facade around each control
\* and does not change which controls are returned.
FinalResult(current_level, return_all) ==
    IF ~return_all /\ current_level /= <<>>
    THEN Elem(current_level[1])
    ELSE List(current_level)

\* search_path(base_element, re_path, return_all): split and initialise.
SPCall(path, return_all) ==
    /\ sp_pc = "idle"
    /\ sp_pc' = "loop"
    /\ sp_parts' = Split(path)
    /\ sp_return_all' = return_all
    /\ sp_i' = 1
    /\ sp_current' = <<0>>
    /\ sp_sizes' = <<>>
    /\ UNCHANGED <<nnodes, parent, ident, sp_result>>
    /\ UNCHANGED <<facade_vars, rows_vars, session_vars, connection_vars>>

\* One iteration of "for i, part in enumerate(parts)".
SPLevel ==
    /\ sp_pc = "loop"
    /\ sp_i <= Len(sp_parts)
    /\ LET pattern == EscapeBrackets(sp_parts[sp_i])
           mode == LevelMode(sp_i, Len(sp_parts), sp_return_all)
           next_level == NextLevel(sp_current, 1, pattern, mode, <<>>)
       IN /\ sp_sizes' = Append(sp_sizes, Len(next_level))
          /\ IF next_level = <<>>
             THEN /\ sp_result' = EmptyLevelResult(sp_current)
                  /\ sp_pc' = "done"
                  /\ UNCHANGED <<sp_i, sp_current>>
             ELSE /\ sp_current' = next_level
                  /\ sp_i' = sp_i + 1
                  /\ UNCHANGED <<sp_pc, sp_result>>
    /\ UNCHANGED <<nnodes, parent, ident, sp_parts, sp_return_all>>
    /\ UNCHANGED <<facade_vars, rows_vars, session_vars, connection_vars>>

\* After the last level: build results and return.
SPReturn ==
    /\ sp_pc = "loop"
    /\ sp_i > Len(sp_parts)
    /\ sp_result' = FinalResult(sp_current, sp_return_all)
    /\ sp_pc' = "done"
    /\ UNCHANGED <<nnodes, parent, ident, sp_parts, sp_return_all, sp_i,
                   sp_current, sp_sizes>>
    /\ UNCHANGED <<facade_vars, rows_vars, session_vars, connection_vars>>

SearchInit ==
    /\ FacadeIdle
    /\ RowsIdle
    /\ SessionIdle
    /\ ConnectionIdle
    /\ nnodes \in 0..MaxNodes
    /\ parent \in [1..nnodes -> 0..MaxNodes]
    /\ \A n \in 1..nnodes : parent[n] < n
    /\ ident \in [1..nnodes -> IdSet]
    /\ sp_pc = "idle"
    /\ sp_parts = <<>>
    /\ sp_return_all = FALSE
    /\ sp_i = 0
    /\ sp_current = <<>>
    /\ sp_result = None
    /\ sp_sizes = <<>>

SearchNext ==
    \/ \E path \in Paths, return_all \in BOOLEAN : SPCall(path, return_all)
    \/ SPLevel
    \/ SPReturn

SpecSearch == SearchInit /\ [][SearchNext]_vars

(***************************************************************************)
(* What the search is expected to return, stated over the tree itself      *)
(* (the parent relation and depth-first pre-order), not over the loops of  *)
(* search_element.                                                         *)
(***************************************************************************)
RECURSIVE Preorder(_)
RECURSIVE PreorderFrom(_, _)
\* The controls strictly below n in depth-first pre-order; PreorderFrom
\* lists the subtrees of the children of n numbered lo or more.
PreorderFrom(n, lo) ==
    LET S == {m \in lo..nnodes : parent[m] = n}
    IN IF S = {} THEN <<>>
       ELSE LET m == CHOOSE x \in S : \A y \in S : x <= y
            IN <<m>> \o Preorder(m) \o PreorderFrom(n, m + 1)

Preorder(n) == PreorderFrom(n, 1)

RECURSIVE IsBelow(_, _)
IsBelow(n, c) == n /= 0 /\ (parent[n] = c \/ IsBelow(parent[n], c))

SegmentMatches(n, part) == re_search(EscapeBrackets(part), ident[n])

MatchesBelow(c, part) ==
    SelectSeq(Preorder(c), LAMBDA n : SegmentMatches(n, part))

\* The first control below c, in pre-order, matching part; -1 if none.
FirstBelow(c, part) ==
    IF c = -1 \/ MatchesBelow(c, part) = <<>> THEN -1
    ELSE MatchesBelow(c, part)[1]

\* The surviving candidate after k levels: the first match of each level
\* below the survivor of the level before.
RECURSIVE Survivor(_)
Survivor(k) == IF k = 0 THEN 0 ELSE FirstBelow(Survivor(k - 1), sp_parts[k])

\* The controls ending a chain c1, ..., ck of matches, each below the one
\* before.
RECURSIVE ChainEnds(_)
ChainEnds(k) ==
    IF k = 0 THEN {0}
    ELSE {n \in 1..nnodes :
            /\ SegmentMatches(n, sp_parts[k])
            /\ \E c \in ChainEnds(k - 1) : IsBelow(n, c)}

NonEmptyResult == sp_result.t = "elem" \/ (sp_result.t = "list" /\ sp_result.v /= <<>>)

\* C2: a search returns a non-empty result only if every level, in segment
\* order, contributed at least one candidate (so a chain of matches of
\* every length exists in the tree); once a level yields no candidate the
\* result is the empty list, never a partial result and never a failure,
\* in both modes.
C2_EveryLevelContributes ==
    sp_pc = "done" =>
        /\ sp_result.t \in {"elem", "list"}
        /\ NonEmptyResult =>
              /\ Len(sp_sizes) = Len(sp_parts)
              /\ \A k \in 1..Len(sp_parts) :
                    sp_sizes[k] > 0 /\ ChainEnds(k) /= {}
        /\ (\E k \in 1..Len(sp_sizes) : sp_sizes[k] = 0) =>
              sp_result = List(<<>>)

\* A two-level search whose first level found a control and whose second
\* level found none.
C2_Witness ==
    /\ sp_pc = "done"
    /\ Len(sp_sizes) = 2
    /\ sp_sizes[1] > 0
    /\ sp_sizes[2] = 0
    /\ sp_result = List(<<>>)

\* C3: in first-match mode, when some control below the surviving candidate
\* matches the last segment, the search returns exactly one control, the
\* first such match in depth-first pre-order.
C3_FirstMatchIsPreorderFirst ==
    (sp_pc = "done" /\ ~sp_return_all) =>
        LET c == Survivor(Len(sp_parts) - 1)
            first == FirstBelow(c, sp_parts[Len(sp_parts)])
        IN first /= -1 => sp_result = Elem(first)

\* The match returned lies deeper than a direct child of the base element
\* that matches too and comes later in the traversal.
C3_Witness ==
    /\ sp_pc = "done"
    /\ ~sp_return_all
    /\ Len(sp_parts) = 1
    /\ sp_result.t = "elem"
    /\ parent[sp_result.v] /= 0
    /\ \E y \in 1..nnodes :
          /\ parent[y] = 0
          /\ y < sp_result.v
          /\ SegmentMatches(y, sp_parts[1])

\* C4 as stated: in all-matches mode the result lists, in traversal order,
\* every control ending some chain of matches c1, ..., cN.
C4_EveryChainEnd ==
    (sp_pc = "done" /\ sp_return_all) =>
        sp_result = List(SelectSeq(Preorder(0),
                                   LAMBDA n : n \in ChainEnds(Len(sp_parts))))

\* C4 amended: in all-matches mode every level but the last keeps only the
\* first pre-order match below the previous survivor; the result lists, in
\* traversal order and without omission, every control below that survivor
\* matching the last segment.
C4_AllMatchesBelowFirstSurvivor ==
    (sp_pc = "done" /\ sp_return_all) =>
        LET c == Survivor(Len(sp_parts) - 1)
        IN sp_result = List(IF c = -1 THEN <<>>
                            ELSE MatchesBelow(c, sp_parts[Len(sp_parts)]))

\* A two-level all-matches search returning two controls.
C4_Witness ==
    /\ sp_pc = "done"
    /\ sp_return_all
    /\ Len(sp_parts) = 2
    /\ sp_result.t = "list"
    /\ Len(sp_result.v) >= 2

\* The path has an empty segment: a leading, trailing or doubled slash, or
\* nothing at all.
HasEmptySegment == \E k \in DOMAIN sp_parts : sp_parts[k] = <<>>

\* C16: a path containing an empty segment never matches: search_path
\* returns the empty result for every tree, in both modes.
C16_EmptySegmentMatchesNothing ==
    (sp_pc = "done" /\ HasEmptySegment) => sp_result = List(<<>>)

(***************************************************************************)
(* element.py: the control facade (Element)                                *)
(***************************************************************************)
SearchIdle ==
    /\ nnodes = 0
    /\ parent = <<>>
    /\ ident = <<>>
    /\ sp_pc = "idle"
    /\ sp_parts = <<>>
    /\ sp_return_all = FALSE
    /\ sp_i = 0
    /\ sp_current = <<>>
    /\ sp_result = None
    /\ sp_sizes = <<>>

AttributeNotFound(name) == Raise("SapAttributeNotFoundException", name)

\* ---- Selected / Checked

\* is_selected(): the value of Selected, else of Checked, else a failure.
is_selected(e) ==
    IF e.hasSelected THEN Return(e.Selected)
    ELSE IF e.hasChecked THEN Return(e.Checked)
    ELSE AttributeNotFound("Selected/Checked")

\* A select() that returns once it has set the attribute.
SelectOutcomeReturning(e) ==
    IF e.hasSelected \/ e.hasChecked THEN Return(NoValue)
    ELSE AttributeNotFound("Selected/Checked")

\* How select() and toggle_select() end: the raise statement follows the
\* if/elif unconditionally, whichever branch was taken.
SelectOutcome(e) == AttributeNotFound("Selected/Checked")

IsSelected ==
    /\ call' = [op |-> "is_selected", pre |-> element]
    /\ ret' = is_selected(element)
    /\ UNCHANGED element
    /\ UNCHANGED <<search_vars, rows_vars, session_vars, connection_vars>>

Select ==
    /\ call' = [op |-> "select", pre |-> element]
    /\ element' = IF element.hasSelected
                  THEN [element EXCEPT !.Selected = TRUE]
                  ELSE IF element.hasChecked
                  THEN [element EXCEPT !.Checked = TRUE]
                  ELSE element
    /\ ret' = SelectOutcome(element)
    /\ UNCHANGED <<search_vars, rows_vars, session_vars, connection_vars>>

ToggleSelect ==
    /\ call' = [op |-> "toggle_select", pre |-> element]
    /\ element' = IF element.hasSelected
                  THEN [element EXCEPT !.Selected = ~element.Selected]
                  ELSE IF element.hasChecked
                  THEN [element EXCEPT !.Checked = ~element.Checked]
                  ELSE element
    /\ ret' = SelectOutcome(element)
    /\ UNCHANGED <<search_vars, rows_vars, session_vars, connection_vars>>

\* ---- Column / Row

IsDigit(c) == c \in {"1", "2"}
IsSpace(c) == c = " "
DigitVal(c) == IF c = "1" THEN 1 ELSE 2

\* int(text) of a run of digits.
RECURSIVE ToInt(_)
ToInt(ds) ==
    IF ds = <<>> THEN 0
    ELSE 10 * ToInt(SubSeq(ds, 1, Len(ds) - 1)) + DigitVal(ds[Len(ds)])

\* The first index from k on whose character is not a digit (a space, a
\* closing bracket): where \d+, \s* and ]+ stop consuming.
RECURSIVE SkipDigits(_, _)
SkipDigits(id, k) ==
    IF k <= Len(id) /\ IsDigit(id[k]) THEN SkipDigits(id, k + 1) ELSE k

RECURSIVE SkipSpaces(_, _)
SkipSpaces(id, k) ==
    IF k <= Len(id) /\ IsSpace(id[k]) THEN SkipSpaces(id, k + 1) ELSE k

RECURSIVE SkipClosing(_, _)
SkipClosing(id, k) ==
    IF k <= Len(id) /\ id[k] = "]" THEN SkipClosing(id, k + 1) ELSE k

\* An attempt to match  [^/]\[(\d+)\s*,\s*(\d+)]+$  with [^/] at index p.
\* The classes that follow one another are disjoint, so the greedy scan is
\* the only way the expression can match from p.
SuffixAt(id, p) ==
    LET a == SkipDigits(id, p + 2)
        b == SkipSpaces(id, a)
        c == SkipSpaces(id, b + 1)
        d == SkipDigits(id, c)
        e == SkipClosing(id, d)
        ok == /\ p + 1 <= Len(id)
              /\ id[p] /= "/"
              /\ id[p + 1] = "["
              /\ a > p + 2
              /\ b <= Len(id)
              /\ id[b] = ","
              /\ d > c
              /\ e > d
              /\ e = Len(id) + 1
    IN [ok |-> ok,
        first |-> IF ok THEN ToInt(SubSeq(id, p + 2, a - 1)) ELSE 0,
        second |-> IF ok THEN ToInt(SubSeq(id, c, d - 1)) ELSE 0]

\* pattern.search(self.id): the leftmost index at which the expression
\* matches, with the two numbers of the pair.
SuffixSearch(id) ==
    LET P == {p \in 1..Len(id) : SuffixAt(id, p).ok}
    IN IF P = {} THEN [ok |-> FALSE, first |-> 0, second |-> 0]
       ELSE SuffixAt(id, CHOOSE p \in P : \A q \in P : p <= q)

\* get_column() consulting the identifier before the native attribute.
get_column_suffix_first(e) ==
    IF SuffixSearch(e.Id).ok THEN Return(SuffixSearch(e.Id).first)
    ELSE IF e.hasColumn THEN Return(e.Column)
    ELSE AttributeNotFound("Column")

\* get_column(): the native Column, else group 1 of column_pattern.
get_column(e) ==
    IF e.hasColumn THEN Return(e.Column)
    ELSE IF SuffixSearch(e.Id).ok THEN Return(SuffixSearch(e.Id).first)
    ELSE AttributeNotFound("Column")

\* get_row() reading the number before the comma.
get_row_first_number(e) ==
    IF e.hasRow THEN Return(e.Row)
    ELSE IF SuffixSearch(e.Id).ok THEN Return(SuffixSearch(e.Id).first)
    ELSE AttributeNotFound("Row")

\* get_row(): the native Row, else group 1 of row_pattern.
get_row(e) ==
    IF e.hasRow THEN Return(e.Row)
    ELSE IF SuffixSearch(e.Id).ok THEN Return(SuffixSearch(e.Id).second)
    ELSE AttributeNotFound("Row")

GetColumn ==
    /\ call' = [op |-> "get_column", pre |-> element]
    /\ ret' = get_column(element)
    /\ UNCHANGED element
    /\ UNCHANGED <<search_vars, rows_vars, session_vars, connection_vars>>

GetRow ==
    /\ call' = [op |-> "get_row", pre |-> element]
    /\ ret' = get_row(element)
    /\ UNCHANGED element
    /\ UNCHANGED <<search_vars, rows_vars, session_vars, connection_vars>>

\* ---- Scrolling

Directions == {"up", "down", "left"}
Amounts == (0 - MaxAmount)..MaxAmount
Positions == (0 - MaxAmount)..(MaxScroll + MaxAmount)

\* is_scrollable(): hasattr(self.element, 'verticalScrollbar').
is_scrollable(e) == e.hasScrollbar

\* A bound test that also rejects a move landing exactly on the bound.
ExceedsBoundInclusive(direction, new_position, min_position, max_position) ==
    IF direction = "up" THEN new_position <= min_position
    ELSE new_position >= max_position

\* new_position < min_position for 'up', new_position > max_position for
\* 'down'.
ExceedsBound(direction, new_position, min_position, max_position) ==
    IF direction = "up" THEN new_position < min_position
    ELSE new_position > max_position

ScrollToRelativePosition(direction, amount) ==
    /\ LET current_position == element.position
           new_position == IF direction = "up" THEN current_position - amount
                           ELSE current_position + amount
           history == [op |-> "scroll_to_relative_position",
                       direction |-> direction, amount |-> amount,
                       pre |-> element]
       IN IF ~is_scrollable(element)
          THEN /\ call' = history
               /\ ret' = AttributeNotFound("verticalScrollbar")
               /\ UNCHANGED element
          ELSE IF direction \notin {"up", "down"}
          THEN /\ call' = history
               /\ ret' = Raise("ValueError",
                              "Direction must be 'up' or 'down'.")
               /\ UNCHANGED element
          ELSE IF ExceedsBound(direction, new_position,
                               element.minimum, element.maximum)
          THEN /\ call' = history
               /\ ret' = Return(FALSE)
               /\ UNCHANGED element
          ELSE /\ new_position \in Positions
               /\ call' = history
               /\ element' = [element EXCEPT !.position = new_position]
               /\ ret' = Return(TRUE)
    /\ UNCHANGED <<search_vars, rows_vars, session_vars, connection_vars>>

ScrollToAbsolutePosition(position) ==
    /\ call' = [op |-> "scroll_to_absolute_position", position |-> position,
                pre |-> element]
    /\ IF ~is_scrollable(element)
       THEN /\ ret' = AttributeNotFound("verticalScrollbar")
            /\ UNCHANGED element
       ELSE /\ element' = [element EXCEPT !.position = position]
            /\ ret' = Return(NoValue)
    /\ UNCHANGED <<search_vars, rows_vars, session_vars, connection_vars>>

\* ---- Attribute forwarding

\* The names Python finds on the facade itself, without __getattr__: the
\* instance fields and the methods of Element.
FacadeAttributes ==
    {"session", "element", "_Element__column_title", "get_text",
     "get_column_title", "set_column_title"}

\* The names the facade is asked for: its own, the control's, the private
\* name get_column_title reads, and one nobody has.
AttributeNames ==
    FacadeAttributes \cup
    {"Id", "id", "Selected", "Checked", "verticalScrollbar", "Column", "Row",
     "tooltip", "_Element__title", "foo"}

\* getattr(self.element, name) on the vendor object, which ignores the case
\* of the name: the value, or an AttributeError.
ControlGetattr(e, name) ==
    IF name \in {"Id", "id"} THEN Return(e.Id)
    ELSE IF name = "Selected" /\ e.hasSelected THEN Return(e.Selected)
    ELSE IF name = "Checked" /\ e.hasChecked THEN Return(e.Checked)
    ELSE IF name = "verticalScrollbar" /\ e.hasScrollbar
    THEN Return(e.position)
    ELSE IF name = "Column" /\ e.hasColumn THEN Return(e.Column)
    ELSE IF name = "Row" /\ e.hasRow THEN Return(e.Row)
    ELSE IF name = "tooltip" /\ e.hasTooltip THEN Return(e.tooltip)
    ELSE Raise("AttributeError", name)

\* A forwarding hook that lets the control's own failure through.
Element_getattr_unwrapped(e, name) == ControlGetattr(e, name)

\* Element.__getattr__(name): the control's value, its AttributeError turned
\* into SapAttributeNotFoundException(name).
Element_getattr(e, name) ==
    IF ControlGetattr(e, name).t = "raise" THEN AttributeNotFound(name)
    ELSE ControlGetattr(e, name)

\* facade.<name>: normal lookup first, __getattr__ only when it finds
\* nothing.
GetAttribute(name) ==
    /\ call' = [op |-> "getattr", name |-> name, pre |-> element]
    /\ ret' = IF name \in FacadeAttributes THEN Return(<<"Element", name>>)
              ELSE Element_getattr(element, name)
    /\ UNCHANGED element
    /\ UNCHANGED <<search_vars, rows_vars, session_vars, connection_vars>>

\* check_element_attribute(method): a SapAttributeNotFoundException passes,
\* any other AttributeError becomes SapAttributeNotFoundException of the
\* name found in its message.
check_element_attribute(outcome) ==
    IF outcome.t = "raise" /\ outcome.exc = "AttributeError"
    THEN AttributeNotFound(outcome.arg)
    ELSE outcome

\* get_tooltip(): self.element.tooltip, under check_element_attribute.
GetTooltip ==
    /\ call' = [op |-> "get_tooltip", pre |-> element]
    /\ ret' = check_element_attribute(ControlGetattr(element, "tooltip"))
    /\ UNCHANGED element
    /\ UNCHANGED <<search_vars, rows_vars, session_vars, connection_vars>>

\* ---- Column title

Titles == {"", "T"}

\* set_column_title(column_title): self.__column_title = column_title.
SetColumnTitle(column_title) ==
    /\ call' = [op |-> "set_column_title", column_title |-> column_title,
                pre |-> element]
    /\ element' = [element EXCEPT !.column_title = column_title]
    /\ ret' = Return(NoValue)
    /\ UNCHANGED <<search_vars, rows_vars, session_vars, connection_vars>>

\* get_column_title(): `if not self.__title` reads the private name
\* _Element__title, which no facade has, so the read goes through
\* __getattr__ to the control; str(self.__column_title) is returned only if
\* that read gives a truthy value.
get_column_title(e) ==
    LET title == IF "_Element__title" \in FacadeAttributes
                 THEN Return(e.column_title)
                 ELSE Element_getattr(e, "_Element__title")
    IN IF title.t = "raise" THEN title
       ELSE IF title.v \in {NoTitle, ""} THEN AttributeNotFound("Title")
       ELSE Return(IF e.column_title = NoTitle THEN "None"
                   ELSE e.column_title)

GetColumnTitle ==
    /\ call' = [op |-> "get_column_title", pre |-> element]
    /\ ret' = check_element_attribute(get_column_title(element))
    /\ UNCHANGED element
    /\ UNCHANGED <<search_vars, rows_vars, session_vars, connection_vars>>

\* ---- The controls a facade is exercised on

TooltipControls ==
    { [PlainControl EXCEPT !.hasTooltip = ht, !.tooltip = "tip"] :
        ht \in BOOLEAN }


SelectControls ==
    { [PlainControl EXCEPT !.hasSelected = hs, !.Selected = s,
                           !.hasChecked = hc, !.Checked = c] :
        hs \in BOOLEAN, s \in BOOLEAN, hc \in BOOLEAN, c \in BOOLEAN }

ScrollControls ==
    { [PlainControl EXCEPT !.hasScrollbar = TRUE, !.minimum = lo,
                           !.maximum = hi, !.position = pos] :
        lo \in 0..1, hi \in 0..MaxScroll, pos \in 0..MaxScroll }

\* Identifiers of table cells: a stem, then a bracketed pair of numbers of
\* which any part may be missing, doubled or followed by more text.
CellIds ==
    { stem \o open \o n1 \o w1 \o sep \o w2 \o n2 \o close \o rest :
        stem \in {<<>>, <<"x">>, <<"/">>},
        open \in {<<"[">>, <<>>},
        n1 \in {<<"1">>, <<"1", "2">>, <<>>},
        w1 \in {<<>>, <<" ">>},
        sep \in {<<",">>, <<>>},
        w2 \in {<<>>, <<" ">>},
        n2 \in {<<"2">>, <<>>},
        close \in {<<"]">>, <<"]", "]">>, <<>>},
        rest \in {<<>>, <<"x">>} }

CellControls ==
    { [PlainControl EXCEPT !.Id = id, !.hasColumn = hc, !.Column = 5,
                           !.hasRow = hr, !.Row = 6] :
        id \in CellIds, hc \in BOOLEAN, hr \in BOOLEAN }

FacadeInit ==
    /\ SearchIdle
    /\ RowsIdle
    /\ SessionIdle
    /\ ConnectionIdle
    /\ element \in SelectControls \cup CellControls \cup
                   {e \in ScrollControls :
                       e.minimum <= e.position /\ e.position <= e.maximum}
    /\ call = NoCall
    /\ ret = Return(NoValue)

FacadeNext ==
    \/ IsSelected
    \/ Select
    \/ ToggleSelect
    \/ GetColumn
    \/ GetRow
    \/ \E direction \in Directions, amount \in Amounts :
           ScrollToRelativePosition(direction, amount)
    \/ \E position \in Positions : ScrollToAbsolutePosition(position)

SpecFacade == FacadeInit /\ [][FacadeNext]_vars

\* The facade with its attribute forwarding and its column title, over
\* controls of every kind; of the table cells, one of each shape.
AttributeCellIds ==
    { <<"x">>, <<"x", "[", "1", ",", "2", "]">>,
      <<"/", "[", "1", ",", "2", "]">> }

AttributeControls ==
    SelectControls \cup TooltipControls \cup
    {e \in ScrollControls :
        e.minimum <= e.position /\ e.position <= e.maximum} \cup
    {e \in CellControls : e.Id \in AttributeCellIds}

AttributeInit ==
    /\ SearchIdle
    /\ RowsIdle
    /\ SessionIdle
    /\ ConnectionIdle
    /\ element \in AttributeControls
    /\ call = NoCall
    /\ ret = Return(NoValue)

AttributeNext ==
    \/ IsSelected
    \/ Select
    \/ ToggleSelect
    \/ GetColumn
    \/ GetRow
    \/ \E direction \in Directions, amount \in Amounts :
           ScrollToRelativePosition(direction, amount)
    \/ \E position \in Positions : ScrollToAbsolutePosition(position)
    \/ \E name \in AttributeNames : GetAttribute(name)
    \/ GetTooltip
    \/ \E column_title \in Titles : SetColumnTitle(column_title)
    \/ GetColumnTitle

SpecAttributes == AttributeInit /\ [][AttributeNext]_vars

C6_SelectFailsOnlyWithoutAttribute ==
    call.op \in {"is_selected", "select", "toggle_select"} =>
        LET pre == call.pre
            exposes == pre.hasSelected \/ pre.hasChecked
            before == IF pre.hasSelected THEN pre.Selected ELSE pre.Checked
            after == IF pre.hasSelected THEN element.Selected
                     ELSE element.Checked
        IN /\ ret.t = "raise" =>
                 ret = AttributeNotFound("Selected/Checked") /\ ~exposes
           /\ (call.op = "select" /\ exposes) =>
                 ret.t = "return" /\ after = TRUE
           /\ (call.op = "toggle_select" /\ exposes) =>
                 ret.t = "return" /\ after = ~before

\* The identifier ends in  c[n1 , n2]  with c any character but a slash,
\* n1 and n2 runs of digits, optional blanks around the comma and one or
\* more closing brackets.
EndsInBracketPair(id) ==
    \E p \in 2..Len(id) :
      /\ id[p] = "["
      /\ id[p - 1] /= "/"
      /\ \E q \in (p + 2)..Len(id) :
           /\ id[q] = ","
           /\ \E a \in (p + 1)..(q - 1) :
                /\ \A k \in (p + 1)..a : IsDigit(id[k])
                /\ \A k \in (a + 1)..(q - 1) : IsSpace(id[k])
           /\ \E c \in q..(Len(id) - 2) :
                /\ \A k \in (q + 1)..c : IsSpace(id[k])
                /\ \E d \in (c + 1)..(Len(id) - 1) :
                     /\ \A k \in (c + 1)..d : IsDigit(id[k])
                     /\ \A k \in (d + 1)..Len(id) : id[k] = "]"

\* C7: get_column and get_row return the native Column/Row attribute
\* whenever the control exposes it; they read the bracketed suffix of the
\* identifier only when the attribute is absent, and fail with
\* AttributeNotFound("Column") / ("Row") when the attribute is absent and
\* the identifier does not end in such a suffix.
C7_NativeAttributeBeforeSuffix ==
    /\ call.op = "get_column" =>
          IF call.pre.hasColumn THEN ret = Return(call.pre.Column)
          ELSE IF EndsInBracketPair(call.pre.Id) THEN ret.t = "return"
          ELSE ret = AttributeNotFound("Column")
    /\ call.op = "get_row" =>
          IF call.pre.hasRow THEN ret = Return(call.pre.Row)
          ELSE IF EndsInBracketPair(call.pre.Id) THEN ret.t = "return"
          ELSE ret = AttributeNotFound("Row")

\* get_column on a control exposing Column whose identifier also ends in a
\* bracketed pair: the native value is returned.
C7_Witness ==
    /\ call.op = "get_column"
    /\ call.pre.hasColumn
    /\ EndsInBracketPair(call.pre.Id)
    /\ ret = Return(call.pre.Column)

\* The names the control behind the facade exposes.
Exposed(e) ==
    {"Id", "id"}
    \cup (IF e.hasSelected THEN {"Selected"} ELSE {})
    \cup (IF e.hasChecked THEN {"Checked"} ELSE {})
    \cup (IF e.hasScrollbar THEN {"verticalScrollbar"} ELSE {})
    \cup (IF e.hasColumn THEN {"Column"} ELSE {})
    \cup (IF e.hasRow THEN {"Row"} ELSE {})
    \cup (IF e.hasTooltip THEN {"tooltip"} ELSE {})

FacadeOperations ==
    {"is_selected", "select", "toggle_select", "get_column", "get_row",
     "scroll_to_relative_position", "scroll_to_absolute_position",
     "getattr", "get_tooltip", "set_column_title", "get_column_title"}

\* C14: reading on a facade a name the facade does not define returns the
\* control's value when the control has the name and fails with
\* AttributeNotFound carrying that same name when it has not; and a facade
\* operation that fails for want of an attribute of the control fails with
\* AttributeNotFound, never with a generic lookup failure (the only other
\* failure is the ValueError for a direction that is neither up nor down).
C14_MissingAttributeIsAttributeNotFound ==
    /\ (call.op = "getattr" /\ call.name \notin FacadeAttributes) =>
          IF call.name \in Exposed(call.pre)
          THEN ret = ControlGetattr(call.pre, call.name) /\ ret.t = "return"
          ELSE ret = AttributeNotFound(call.name)
    /\ (call.op \in FacadeOperations /\ ret.t = "raise") =>
          \/ ret.exc = "SapAttributeNotFoundException"
          \/ /\ call.op = "scroll_to_relative_position"
             /\ call.direction \notin {"up", "down"}
             /\ ret.exc = "ValueError"

\* Reading tooltip through the facade on a control that has none.
C14_Witness ==
    /\ call.op = "getattr"
    /\ call.name = "tooltip"
    /\ ~call.pre.hasTooltip
    /\ ret = AttributeNotFound("tooltip")

\* The identifier ends in  c[n1 , n2]  as in EndsInBracketPair, and v is
\* the number before the comma (which = 1) or after it (which = 2).
PairNumberIs(id, which, v) ==
    \E p \in 2..Len(id) :
      /\ id[p] = "["
      /\ id[p - 1] /= "/"
      /\ \E q \in (p + 2)..Len(id) :
           /\ id[q] = ","
           /\ \E a \in (p + 1)..(q - 1) :
                /\ \A k \in (p + 1)..a : IsDigit(id[k])
                /\ \A k \in (a + 1)..(q - 1) : IsSpace(id[k])
                /\ \E c \in q..(Len(id) - 2) :
                     /\ \A k \in (q + 1)..c : IsSpace(id[k])
                     /\ \E d \in (c + 1)..(Len(id) - 1) :
                          /\ \A k \in (c + 1)..d : IsDigit(id[k])
                          /\ \A k \in (d + 1)..Len(id) : id[k] = "]"
                          /\ v = IF which = 1
                                 THEN ToInt(SubSeq(id, p + 1, a))
                                 ELSE ToInt(SubSeq(id, c + 1, d))

\* C17 as stated: without a native Row/Column attribute and with an
\* identifier ending in a bracketed pair of numbers, get_row() returns the
\* first number of the pair and get_column() the second.
C17_SuffixReadAsRowCol ==
    /\ (/\ call.op = "get_row"
        /\ ~call.pre.hasRow
        /\ EndsInBracketPair(call.pre.Id)) =>
           ret.t = "return" /\ PairNumberIs(call.pre.Id, 1, ret.v)
    /\ (/\ call.op = "get_column"
        /\ ~call.pre.hasColumn
        /\ EndsInBracketPair(call.pre.Id)) =>
           ret.t = "return" /\ PairNumberIs(call.pre.Id, 2, ret.v)

\* C17, as the code has it: without a native Row/Column attribute and with
\* an identifier ending in a bracketed pair of numbers, get_column()
\* returns the first number of the pair and get_row() the second, i.e. the
\* suffix is read as [col,row].
C17_SuffixReadAsColRow ==
    /\ (/\ call.op = "get_column"
        /\ ~call.pre.hasColumn
        /\ EndsInBracketPair(call.pre.Id)) =>
           ret.t = "return" /\ PairNumberIs(call.pre.Id, 1, ret.v)
    /\ (/\ call.op = "get_row"
        /\ ~call.pre.hasRow
        /\ EndsInBracketPair(call.pre.Id)) =>
           ret.t = "return" /\ PairNumberIs(call.pre.Id, 2, ret.v)

\* get_row on a control without Row whose identifier ends in [12,2]: the
\* number after the comma is returned.
C17_Witness ==
    /\ call.op = "get_row"
    /\ ~call.pre.hasRow
    /\ PairNumberIs(call.pre.Id, 1, 12)
    /\ PairNumberIs(call.pre.Id, 2, 2)
    /\ ret = Return(2)

\* The scrollbar position lies within its bounds.
WithinBounds(e) == e.minimum <= e.position /\ e.position <= e.maximum

\* C18: a scroll_to_relative_position call, with any direction and any
\* integer amount, made on a scrollbar whose position is within its bounds
\* leaves it within its bounds: it returns true only if the position it
\* sets lies within the bounds, and returns false leaving the position
\* unchanged otherwise.
C18_RelativeScrollStaysWithinBounds ==
    (/\ call.op = "scroll_to_relative_position"
     /\ call.pre.hasScrollbar
     /\ WithinBounds(call.pre)) =>
        /\ WithinBounds(element)
        /\ ret = Return(FALSE) => element.position = call.pre.position

\* C20: get_column_title() returns the title last set on the facade by
\* set_column_title(t) with a non-empty t, and fails with
\* AttributeNotFound("Title") only when no title has been set.
C20_ColumnTitleRoundTrip ==
    call.op = "get_column_title" =>
        /\ call.pre.column_title \notin {NoTitle, ""} =>
              ret = Return(call.pre.column_title)
        /\ ret = AttributeNotFound("Title") =>
              call.pre.column_title \in {NoTitle, ""}

(***************************************************************************)
(* element.py, item_element.py: row iteration (each_row)                   *)
(*                                                                         *)
(* Rows and columns are numbered from 1 here, from 0 in the code; the row  *)
(* and column attributes of children keep the values the control reports.  *)
(***************************************************************************)
Missing == "<lookup fails>"
CellValues == {"", " ", "x", Missing}

\* column_limit: None or a number of columns.
NoLimit == [some |-> FALSE]
Limit(k) == [some |-> TRUE, v |-> k]

Min(a, b) == IF a <= b THEN a ELSE b

Cell(r, c, text) == [r |-> r, c |-> c, text |-> text]

Done(out) == [out |-> out, ret |-> Return(NoValue)]
Failed(exc, arg) == [out |-> <<>>, ret |-> Raise(exc, arg)]

\* A blank test that strips the text first: '', ' ' are blank.
IsBlankStripped(text) == text = "" \/ text = " "

\* get_text() == '' (or None): only the empty text is blank.
IsBlankExact(text) == text = ""

\* all(<cell is blank> for cell in row_elements), evaluated cell by cell:
\* it stops at the first cell that is not blank, and reading the text of a
\* cell whose lookup fails raises.
RECURSIVE BlankScan(_, _, _)
BlankScan(row, k, strip) ==
    IF k > Len(row) THEN "blank"
    ELSE IF row[k].text = Missing THEN "raise"
    ELSE IF (IF strip THEN IsBlankStripped(row[k].text)
             ELSE IsBlankExact(row[k].text))
         THEN BlankScan(row, k + 1, strip)
         ELSE "nonblank"

\* The cells of row r of a grid view or tree table: one per leading column
\* of the control's column order, the cell text being read later.
ItemRow(t, r, count) ==
    [k \in 1..count |-> Cell(r, t.order[k], t.cells[r][t.order[k]])]

\* The row loop shared by GridViewElement.each_row and
\* TableTreeElement.each_row, from row r on.
RECURSIVE ItemRowsFrom(_, _, _, _)
ItemRowsFrom(t, r, count, return_empty_rows) ==
    IF r > t.nrows THEN Done(<<>>)
    ELSE IF count > t.ncols THEN Failed("com_error", "ColumnOrder.Item")
    ELSE
      LET row == ItemRow(t, r, count)
          scan == IF return_empty_rows THEN "nonblank"
                  ELSE BlankScan(row, 1, TRUE)
      IN IF scan = "raise" THEN Failed("com_error", "GetCellValue")
         ELSE LET rest == ItemRowsFrom(t, r + 1, count, return_empty_rows)
              IN IF scan = "blank" THEN rest
                 ELSE [out |-> <<row>> \o rest.out, ret |-> rest.ret]

\* GridViewElement.each_row: ColumnCount columns, or column_limit of them
\* whatever the grid has.
GridViewElement_each_row(t, column_limit, return_empty_rows) ==
    ItemRowsFrom(t, 1,
                 IF column_limit.some THEN column_limit.v ELSE t.ncols,
                 return_empty_rows)

\* TableTreeElement.each_row: column_names[:column_limit].
TableTreeElement_each_row(t, column_limit, return_empty_rows) ==
    ItemRowsFrom(t, 1,
                 IF column_limit.some THEN Min(t.ncols, column_limit.v)
                 ELSE t.ncols,
                 return_empty_rows)

\* The cells of row r of a plain table: a cell whose lookup fails is left
\* out of the row.
TableRow(t, r, count) ==
    SelectSeq([k \in 1..count |-> Cell(r, k, t.cells[r][k])],
              LAMBDA cell : cell.text /= Missing)

\* The row loop of Element.each_table_row from row r on: a blank row is
\* skipped, a row without cells ends the iteration.
RECURSIVE TableRowsFrom(_, _, _, _)
TableRowsFrom(t, r, count, return_empty_rows) ==
    IF r > t.nrows THEN <<>>
    ELSE LET row == TableRow(t, r, count)
         IN IF ~return_empty_rows /\ BlankScan(row, 1, FALSE) = "blank"
            THEN TableRowsFrom(t, r + 1, count, return_empty_rows)
            ELSE IF row = <<>> THEN <<>>
            ELSE <<row>> \o TableRowsFrom(t, r + 1, count, return_empty_rows)

\* Element.each_table_row: min(Columns.Count, column_limit) columns.
each_table_row(t, column_limit, return_empty_rows) ==
    Done(TableRowsFrom(t, 1,
                       IF column_limit.some THEN Min(t.ncols, column_limit.v)
                       ELSE t.ncols,
                       return_empty_rows))

\* sorted(row, key=column): a stable sort, column by column.
RECURSIVE SortByColumn(_, _)
SortByColumn(members, cols) ==
    IF cols = <<>> THEN <<>>
    ELSE SelectSeq(members, LAMBDA ch : ch.c = Head(cols))
         \o SortByColumn(members, Tail(cols))

\* Element.__rows_generator: group the children having row and column by
\* row, drop those past the column limit or without text, emit the groups
\* by ascending row.
RECURSIVE GroupsFrom(_, _, _, _)
GroupsFrom(withText, keys, column_limit, remove_empty_rows) ==
    IF keys = <<>> THEN <<>>
    ELSE
      LET members == SelectSeq(withText, LAMBDA ch : ch.r = Head(keys))
          sorted == SortByColumn(members,
                        SortedSeq({members[k].c : k \in DOMAIN members}))
          row_elems == IF column_limit.some
                       THEN SubSeq(sorted, 1, Min(column_limit.v, Len(sorted)))
                       ELSE sorted
          rest == GroupsFrom(withText, Tail(keys), column_limit,
                             remove_empty_rows)
      IN IF remove_empty_rows /\ row_elems = <<>> THEN rest
         ELSE <<[k \in DOMAIN row_elems |->
                   Cell(row_elems[k].r, row_elems[k].c, row_elems[k].text)]>>
              \o rest

rows_generator(t, column_limit, remove_empty_rows) ==
    IF ~t.hasChildren
    THEN Failed("SapAttributeNotFoundException", "Children")
    ELSE
      LET kept == SelectSeq(t.children,
                     LAMBDA ch : /\ ch.hasRC
                                 /\ column_limit.some => ch.c < column_limit.v)
          keys == SortedSeq({kept[k].r : k \in DOMAIN kept})
          withText == SelectSeq(kept, LAMBDA ch : ch.text /= "")
      IN Done(GroupsFrom(withText, keys, column_limit, remove_empty_rows))

\* The variant the markers select, tried in the order of the if/elif chain.
Specialized(t, column_limit, return_empty_rows) ==
    IF "GridViewCtrl" \in t.text
    THEN GridViewElement_each_row(t, column_limit, return_empty_rows)
    ELSE IF "TableTreeCtrl" \in t.text
    THEN TableTreeElement_each_row(t, column_limit, return_empty_rows)
    ELSE IF t.isTable
    THEN each_table_row(t, column_limit, return_empty_rows)
    ELSE Done(<<>>)

\* Element.each_row, consumed to the end: the rows of the selected variant,
\* then, the if/elif chain having no else, the rows of __rows_generator.
each_row(t, column_limit, return_empty_rows) ==
    LET first == Specialized(t, column_limit, return_empty_rows)
    IN IF first.ret.t = "raise" THEN first
       ELSE LET second == rows_generator(t, column_limit, ~return_empty_rows)
            IN [out |-> first.out \o second.out, ret |-> second.ret]

EachRow(column_limit, return_empty_rows) ==
    /\ call' = [op |-> "each_row", column_limit |-> column_limit,
                return_empty_rows |-> return_empty_rows]
    /\ emitted' = each_row(table, column_limit, return_empty_rows).out
    /\ ret' = each_row(table, column_limit, return_empty_rows).ret
    /\ UNCHANGED table
    /\ UNCHANGED <<search_vars, element, session_vars, connection_vars>>

\* ---- The controls rows are iterated over

Limits == {NoLimit} \cup {Limit(k) : k \in 0..(MaxCols + 1)}

Identity(n) == [k \in 1..n |-> k]

\* The cells and column order of a control of at most maxr rows and maxc
\* columns.
Grids(maxr, maxc) ==
    UNION { { [nrows |-> nr, ncols |-> nc, cells |-> cs, order |-> ord] :
                cs \in [1..nr -> [1..nc -> CellValues]],
                ord \in {Identity(nc), Reverse(Identity(nc))} } :
            nr \in 0..maxr, nc \in 0..maxc }

ChildValues ==
    {[hasRC |-> FALSE, r |-> 0, c |-> 0, text |-> "x"]} \cup
    { [hasRC |-> TRUE, r |-> r, c |-> c, text |-> text] :
        r \in 0..1, c \in 0..1, text \in {"", " ", "x"} }

ChildLists(maxn) == UNION { [1..n -> ChildValues] : n \in 0..maxn }

\* A grid view, tree table or plain table: its cells, and either no
\* Children attribute or one child carrying row, column and text.
SpecializedTables(grids) ==
    { [text |-> tx, isTable |-> it, nrows |-> g.nrows, ncols |-> g.ncols,
       cells |-> g.cells, order |-> g.order, hasChildren |-> hc,
       children |-> IF hc
                    THEN <<[hasRC |-> TRUE, r |-> 0, c |-> 0, text |-> "x"]>>
                    ELSE <<>>] :
        tx \in SUBSET {"GridViewCtrl", "TableTreeCtrl"},
        it \in BOOLEAN, g \in grids, hc \in BOOLEAN }

\* A control with no marker: it has children only.
GenericTables(lists) ==
    { [NoTable EXCEPT !.hasChildren = TRUE, !.children = cl] :
        cl \in lists }

RowsInit ==
    /\ SearchIdle
    /\ FacadeIdle
    /\ SessionIdle
    /\ ConnectionIdle
    /\ table \in {t \in SpecializedTables(Grids(MaxRows, MaxCols)) :
                       t.text /= {} \/ t.isTable}
                 \cup GenericTables(ChildLists(MaxChildren)) \cup {NoTable}
    /\ emitted = <<>>

RowsNext ==
    \E column_limit \in Limits, return_empty_rows \in BOOLEAN :
        EachRow(column_limit, return_empty_rows)

SpecRows == RowsInit /\ [][RowsNext]_vars

(***************************************************************************)
(* Properties of the row iteration                                         *)
(***************************************************************************)
\* Every cell of the row has an empty or whitespace-only text.
RowIsBlank(row) == \A k \in DOMAIN row : row[k].text \in {"", " "}

\* Native row r of a grid view, tree table or plain table is among the
\* emitted rows.
NativeRowEmitted(r) ==
    \E k \in DOMAIN emitted :
        /\ emitted[k] /= <<>>
        /\ \A j \in DOMAIN emitted[k] :
              /\ emitted[k][j].r = r
              /\ emitted[k][j].c \in 1..table.ncols
              /\ emitted[k][j].text = table.cells[r][emitted[k][j].c]

NativeRowIsBlank(r) ==
    \A c \in 1..table.ncols : table.cells[r][c] \in {"", " "}

HasMarker == table.text /= {} \/ table.isTable

\* C8: with return_empty_rows=False each_row emits no row whose cells are
\* all empty or whitespace-only and emits every other native row; with
\* return_empty_rows=True it emits every native row.
C8_EmptyRowsOmittedOrKept ==
    call.op = "each_row" =>
        /\ ~call.return_empty_rows =>
              \A k \in DOMAIN emitted : ~RowIsBlank(emitted[k])
        /\ (HasMarker /\ table.ncols > 0 /\ ~call.column_limit.some) =>
              \A r \in 1..table.nrows :
                  (call.return_empty_rows \/ ~NativeRowIsBlank(r)) =>
                      NativeRowEmitted(r)

\* C12: each_row selects exactly one variant per call, by the priority
\* grid-view marker, tree-table marker, plain-table marker; the generic
\* fallback contributes rows only when no marker matches, so for a control
\* with a matching marker the rows emitted, and the way the iteration ends,
\* are exactly those of the specialized variant.
C12_OnlySelectedVariantContributes ==
    (call.op = "each_row" /\ HasMarker) =>
        LET variant == Specialized(table, call.column_limit,
                                   call.return_empty_rows)
        IN emitted = variant.out /\ ret = variant.ret

\* No lookup of a native cell of the control fails.
AllCellsPresent ==
    \A r \in 1..table.nrows, c \in 1..table.ncols :
        table.cells[r][c] /= Missing

\* C13: each_row with column_limit = k emits rows of at most k cells; when
\* k is greater than the number of columns of the control, iteration does
\* not fail and each row holds all of the control's columns.
C13_ColumnLimitTruncates ==
    (call.op = "each_row" /\ call.column_limit.some) =>
        LET k == call.column_limit.v
        IN /\ \A i \in DOMAIN emitted : Len(emitted[i]) <= k
           /\ (/\ k > table.ncols
               /\ table.ncols >= 1
               /\ HasMarker
               /\ AllCellsPresent
               /\ call.return_empty_rows
               /\ table.hasChildren) =>
                  /\ ret.t = "return"
                  /\ \A r \in 1..table.nrows :
                        \E i \in DOMAIN emitted :
                            /\ Len(emitted[i]) = table.ncols
                            /\ \A j \in DOMAIN emitted[i] :
                                  emitted[i][j].r = r

\* The control is a plain table (no grid-view or tree-table marker) and the
\* iteration looks up a cell whose lookup fails.
PlainTableLookupFails ==
    /\ table.text = {}
    /\ table.isTable
    /\ \E r \in 1..table.nrows, c \in 1..table.ncols :
          /\ table.cells[r][c] = Missing
          /\ call.column_limit.some => c <= call.column_limit.v

\* C15: a failure raised by the control during row iteration reaches the
\* caller: each_row over a plain table one of whose cells cannot be looked
\* up ends with a failure, and never returns rows with the cell or the row
\* dropped.
C15_LookupFailuresPropagate ==
    (call.op = "each_row" /\ PlainTableLookupFails) => ret.t = "raise"

(***************************************************************************)
(* session.py, connection.py: acquiring and refreshing a Session, and the  *)
(* facades built from it                                                   *)
(***************************************************************************)
\* The attributes a Connection instance or its class defines.
ConnectionAttributes ==
    {"ScriptingEngine", "connection", "connection_id", "get_id", "refresh",
     "get_session"}

\* Connection.__getattr__(name): return getattr(self.session, name).  It
\* runs for names the Connection does not define, and reads self.session
\* first, which is such a name itself.
RECURSIVE Connection_getattr(_, _)
Connection_getattr(name, depth) ==
    IF depth = 0
    THEN Raise("RecursionError", "maximum recursion depth exceeded")
    ELSE LET target == IF "session" \in ConnectionAttributes
                       THEN Return("session")
                       ELSE Connection_getattr("session", depth - 1)
         IN IF target.t = "raise" THEN target
            ELSE Return(<<target.v, name>>)

\* self.connection.Sessions.  The connection of a Session is a Connection
\* (the default, and what the annotation asks for) or whatever object the
\* caller passed; an object of another class, such as the connection handle
\* itself, serves Sessions directly.
ConnectionSessions(connection) ==
    IF connection = "Connection"
    THEN IF "Sessions" \in ConnectionAttributes THEN Return(live)
         ELSE Connection_getattr("Sessions", MaxDepth)
    ELSE Return(live)

\* NoSapSessionException(session_id): the message names the index only if
\* session_id is truthy; is_busy is never passed.
NoSapSessionException(session_id) ==
    Raise("NoSapSessionException",
          [shown |-> IF session_id.some /\ session_id.v /= 0
                     THEN <<session_id.v>> ELSE <<>>,
           busy |-> FALSE])

\* The index, from 1, of the first session that is not busy; 0 if none.
FirstIdle(sessions) ==
    LET idle == {k \in DOMAIN sessions : ~sessions[k].Busy}
    IN IF idle = {} THEN 0 ELSE CHOOSE k \in idle : \A j \in idle : k <= j

\* Session.__get_session(session_id); Item(i) is sessions[i + 1].
get_session(connection, session_id) ==
    LET lookup == ConnectionSessions(connection)
    IN IF lookup.t = "raise" THEN lookup
       ELSE
         LET sessions == lookup.v
             sessions_length == Len(sessions)
         IN IF sessions_length = 0 THEN NoSapSessionException(NoIndex)
            ELSE IF session_id.some
            THEN IF session_id.v < 0 \/ sessions_length <= session_id.v
                 THEN NoSapSessionException(session_id)
                 ELSE IF ~sessions[session_id.v + 1].Busy
                 THEN Return(sessions[session_id.v + 1].h)
                 ELSE NoSapSessionException(session_id)
            ELSE IF FirstIdle(sessions) /= 0
                 THEN Return(sessions[FirstIdle(sessions)].h)
                 ELSE NoSapSessionException(session_id)

\* Session(session_id, connection): the object exists only if __init__
\* returns.
SessionInit(session_id, connection) ==
    /\ ~sess.alive
    /\ call' = [op |-> "Session", session_id |-> session_id,
                connection |-> connection, sessions |-> live]
    /\ ret' = get_session(connection, session_id)
    /\ sess' = IF get_session(connection, session_id).t = "return"
               THEN [alive |-> TRUE,
                     session |-> get_session(connection, session_id).v,
                     session_id |-> session_id,
                     connection |-> connection]
               ELSE sess
    /\ UNCHANGED <<live, fac, controls>>
    /\ UNCHANGED <<search_vars, rows_vars, element, connection_vars>>

\* Session.refresh(): self.session is assigned first, then the connection
\* is refreshed; a connection that is not a Connection has no refresh().
SessionRefresh ==
    /\ sess.alive
    /\ call' = [op |-> "refresh", sessions |-> live, pre |-> sess]
    /\ LET found == get_session(sess.connection, sess.session_id)
       IN IF found.t = "raise"
          THEN /\ ret' = found
               /\ UNCHANGED sess
          ELSE /\ sess' = [sess EXCEPT !.session = found.v]
               /\ ret' = IF sess.connection = "Connection"
                         THEN Return(NoValue)
                         ELSE Raise("AttributeError", "refresh")
    /\ UNCHANGED <<live, fac, controls>>
    /\ UNCHANGED <<search_vars, rows_vars, element, connection_vars>>

LiveHandles == {live[k].h : k \in DOMAIN live}

\* Session.find_element(element_id): Element(self, self.session.findById(id)).
\* The facade keeps the Session and the control; `captured` records, for
\* the properties only, the session handle the control was found through.
FindElement ==
    /\ sess.alive
    /\ ~fac.built
    /\ call' = [op |-> "find_element"]
    /\ IF sess.session \in LiveHandles
       THEN /\ fac' = [built |-> TRUE, owner |-> sess.session,
                       captured |-> sess.session]
            /\ ret' = Return(NoValue)
       ELSE /\ ret' = Raise("SapElementNotFoundException", "element_id")
            /\ UNCHANGED fac
    /\ UNCHANGED <<live, sess, controls>>
    /\ UNCHANGED <<search_vars, rows_vars, element, connection_vars>>

\* What a facade method records of its invocation.
Invocation(op) ==
    [op |-> op, stale |-> sess.session /= fac.captured, before |-> controls]

\* Element.click(): self.element.press().
Click ==
    /\ fac.built
    /\ call' = Invocation("click")
    /\ IF fac.owner \in LiveHandles
       THEN /\ controls[fac.owner].presses < MaxPresses
            /\ controls' = [controls EXCEPT ![fac.owner].presses = @ + 1]
            /\ ret' = Return(NoValue)
       ELSE /\ ret' = Raise("com_error", "press")
            /\ UNCHANGED controls
    /\ UNCHANGED <<live, sess, fac>>
    /\ UNCHANGED <<search_vars, rows_vars, element, connection_vars>>

\* Element.fill(value): self.element.text = value.
Fill(value) ==
    /\ fac.built
    /\ call' = Invocation("fill")
    /\ IF fac.owner \in LiveHandles
       THEN /\ controls' = [controls EXCEPT ![fac.owner].text = value]
            /\ ret' = Return(NoValue)
       ELSE /\ ret' = Raise("com_error", "text")
            /\ UNCHANGED controls
    /\ UNCHANGED <<live, sess, fac>>
    /\ UNCHANGED <<search_vars, rows_vars, element, connection_vars>>

\* Element.get_text(): str(self.element.text).
GetText ==
    /\ fac.built
    /\ call' = Invocation("get_text")
    /\ ret' = IF fac.owner \in LiveHandles
              THEN Return(controls[fac.owner].text)
              ELSE Raise("com_error", "text")
    /\ UNCHANGED <<live, sess, fac, controls>>
    /\ UNCHANGED <<search_vars, rows_vars, element, connection_vars>>

\* The sessions a connection can report: distinct handles, each busy or not.
SessionLists ==
    { s \in UNION { [1..n -> [h : Handles, Busy : BOOLEAN]] :
                      n \in 0..MaxSessions } :
        \A i, j \in DOMAIN s : i /= j => s[i].h /= s[j].h }

\* The application opens, closes, reorders sessions and makes them busy.
SessionsChange ==
    /\ live' \in SessionLists \ {live}
    /\ UNCHANGED <<sess, fac, controls, call, ret>>
    /\ UNCHANGED <<search_vars, rows_vars, element, connection_vars>>

SessionInitState ==
    /\ SearchIdle
    /\ RowsIdle
    /\ ConnectionIdle
    /\ element = PlainControl
    /\ call = NoCall
    /\ ret = Return(NoValue)
    /\ live \in SessionLists
    /\ sess = NoSession
    /\ fac = NoFacade
    /\ controls = [h \in Handles |-> FreshControl]

SessionIds == {NoIndex} \cup {Index(i) : i \in (0 - 1)..MaxSessions}

SessionNext ==
    \/ \E session_id \in SessionIds,
          connection \in {"Connection", "object"} :
             SessionInit(session_id, connection)
    \/ SessionRefresh
    \/ FindElement
    \/ Click
    \/ \E value \in {"", "v"} : Fill(value)
    \/ GetText
    \/ SessionsChange

SpecSession == SessionInitState /\ [][SessionNext]_vars

(***************************************************************************)
(* Properties of sessions and of the facades built from them               *)
(***************************************************************************)
SessionMismatch == Raise("SapSessionMismatchException", NoValue)

\* C1: a facade whose Session now holds another session handle than the one
\* it was built through fails every interaction with the session-mismatch
\* failure and performs no action on the control.
C1_StaleFacadeFailsWithMismatch ==
    (call.op \in {"click", "fill", "get_text"} /\ call.stale) =>
        ret = SessionMismatch /\ controls = call.before

\* C9: acquiring a Session with an index i in 0..Count-1 whose session is
\* busy fails with NoSessionFound carrying i; with an index outside
\* 0..Count-1 it fails with NoSessionFound; no Session results.
C9_BusyOrOutOfRangeIndexFails ==
    (call.op = "Session" /\ call.session_id.some) =>
        LET i == call.session_id.v
            count == Len(call.sessions)
        IN /\ (i \in 0..(count - 1) /\ call.sessions[i + 1].Busy) =>
                 /\ ret.t = "raise"
                 /\ ret.exc = "NoSapSessionException"
                 /\ ret.arg.shown = <<i>>
                 /\ ~sess.alive
           /\ i \notin 0..(count - 1) =>
                 /\ ret.t = "raise"
                 /\ ret.exc = "NoSapSessionException"
                 /\ ~sess.alive

\* C10: acquiring a Session with no index returns the session that is not
\* busy with the smallest index, and fails with NoSessionFound when the
\* connection has no session or all are busy.
C10_NoIndexReturnsFirstIdle ==
    (call.op = "Session" /\ ~call.session_id.some) =>
        LET idle == {k \in DOMAIN call.sessions : ~call.sessions[k].Busy}
        IN IF idle = {}
           THEN ret.t = "raise" /\ ret.exc = "NoSapSessionException"
           ELSE /\ ret.t = "return"
                /\ \E k \in idle :
                      /\ ret.v = call.sessions[k].h
                      /\ \A j \in 1..(k - 1) : call.sessions[j].Busy

\* C19: after Session.refresh() completes, the session handle held by the
\* Session is one of the sessions its connection reports at that moment;
\* when refresh() fails, the session handle and the connection have not
\* changed.
C19_RefreshIsAllOrNothing ==
    call.op = "refresh" =>
        /\ ret.t = "return" =>
              \E k \in DOMAIN call.sessions :
                  call.sessions[k].h = sess.session
        /\ ret.t = "raise" =>
              /\ sess.session = call.pre.session
              /\ sess.connection = call.pre.connection

(***************************************************************************)
(* connection.py: acquiring and refreshing a Connection                    *)
(***************************************************************************)
ConnectionHandles == 1..MaxConnections

\* NoSapConnectionException(connection_id): the message names the index
\* only if connection_id is truthy.
NoSapConnectionException(connection_id) ==
    Raise("NoSapConnectionException",
          IF connection_id.some /\ connection_id.v /= 0
          THEN <<connection_id.v>> ELSE <<>>)

\* connections.Item(i) of the vendor collection: the handle at index i,
\* from 0, and a failure of the collection for any other index.
Item(collection, i) ==
    IF i \in 0..(Len(collection) - 1) THEN Return(collection[i + 1])
    ELSE Raise("com_error", "Item")

\* (connection_id < 0) or (connections_length < connection_id)
IndexOutOfRange(connection_id, connections_length) ==
    connection_id < 0 \/ connections_length < connection_id

\* Connection.__get_connection(connection_id): `if connection_id:` is false
\* for None and for 0.
get_connection(all, connection_id) ==
    LET connections_length == Len(all)
    IN IF connections_length = 0 THEN NoSapConnectionException(NoIndex)
       ELSE IF connection_id.some /\ connection_id.v /= 0
       THEN IF IndexOutOfRange(connection_id.v, connections_length)
            THEN NoSapConnectionException(connection_id)
            ELSE Item(all, connection_id.v)
       ELSE Item(all, connections_length - 1)

\* Connection(connection_id): the scripting engine is fetched first, then
\* the connection; the object exists only if __init__ returns.
ConnectionInit(connection_id, running) ==
    /\ ~conn.alive
    /\ call' = [op |-> "Connection", connection_id |-> connection_id,
                running |-> running, connections |-> connections]
    /\ LET found == get_connection(connections, connection_id)
       IN IF ~running
          THEN /\ ret' = Raise("UnableToConnectException", NoValue)
               /\ UNCHANGED conn
          ELSE /\ ret' = found
               /\ conn' = IF found.t = "return"
                          THEN [alive |-> TRUE, connection |-> found.v,
                                connection_id |-> connection_id]
                          ELSE conn
    /\ UNCHANGED connections
    /\ UNCHANGED <<search_vars, rows_vars, element, session_vars>>

\* Connection.refresh(): self.connection = __get_connection(connection_id).
ConnectionRefresh ==
    /\ conn.alive
    /\ call' = [op |-> "Connection.refresh",
                connection_id |-> conn.connection_id,
                connections |-> connections, pre |-> conn]
    /\ LET found == get_connection(connections, conn.connection_id)
       IN /\ ret' = IF found.t = "return" THEN Return(NoValue) ELSE found
          /\ conn' = IF found.t = "return"
                     THEN [conn EXCEPT !.connection = found.v]
                     ELSE conn
    /\ UNCHANGED connections
    /\ UNCHANGED <<search_vars, rows_vars, element, session_vars>>

\* How many times __getattr__ is entered by one lookup of a name the
\* Connection does not define, the interpreter allowing depth nested calls.
RECURSIVE HookEntries(_, _)
HookEntries(name, depth) ==
    IF depth = 0 THEN 0
    ELSE IF "session" \in ConnectionAttributes THEN 1
    ELSE 1 + HookEntries("session", depth - 1)

ConnectionLookupNames == {"connection", "Sessions", "Id", "session", "foo"}

\* connection_object.<name>: normal lookup first, __getattr__ only when it
\* finds nothing.
ConnectionGetattr(name) ==
    /\ conn.alive
    /\ call' = [op |-> "Connection.getattr", name |-> name,
                entries |-> IF name \in ConnectionAttributes THEN 0
                            ELSE HookEntries(name, MaxDepth)]
    /\ ret' = IF name \in ConnectionAttributes
              THEN Return(<<"Connection", name>>)
              ELSE Connection_getattr(name, MaxDepth)
    /\ UNCHANGED <<connections, conn>>
    /\ UNCHANGED <<search_vars, rows_vars, element, session_vars>>

\* Connection.get_id(): self.connection.Id, the handle standing for its Id;
\* a handle that is no longer running has no Id to give.
ConnectionGetId ==
    /\ conn.alive
    /\ call' = [op |-> "Connection.get_id"]
    /\ ret' = IF \E k \in DOMAIN connections : connections[k] = conn.connection
              THEN Return(conn.connection)
              ELSE Raise("com_error", "Id")
    /\ UNCHANGED <<connections, conn>>
    /\ UNCHANGED <<search_vars, rows_vars, element, session_vars>>

\* The running instances: distinct handles, in the order of their indices.
ConnectionLists ==
    { c \in UNION { [1..n -> ConnectionHandles] : n \in 0..MaxConnections } :
        \A i, j \in DOMAIN c : i /= j => c[i] /= c[j] }

\* Application instances start and stop.
ConnectionsChange ==
    /\ connections' \in ConnectionLists \ {connections}
    /\ UNCHANGED <<conn, call, ret>>
    /\ UNCHANGED <<search_vars, rows_vars, element, session_vars>>

ConnectionIds ==
    {NoIndex} \cup {Index(i) : i \in (0 - 1)..(MaxConnections + 1)}

ConnectionInitState ==
    /\ SearchIdle
    /\ RowsIdle
    /\ FacadeIdle
    /\ SessionIdle
    /\ connections \in ConnectionLists
    /\ conn = NoConnection

ConnectionNext ==
    \/ \E connection_id \in ConnectionIds, running \in BOOLEAN :
           ConnectionInit(connection_id, running)
    \/ ConnectionRefresh
    \/ ConnectionGetId
    \/ \E name \in ConnectionLookupNames : ConnectionGetattr(name)
    \/ ConnectionsChange

SpecConnection == ConnectionInitState /\ [][ConnectionNext]_vars

(***************************************************************************)
(* Properties of connections                                               *)
(***************************************************************************)
\* C11: with the application running, Connection(i) resolves the instance
\* with ordinal index i for every i in 0..Count-1, Connection() resolves
\* the instance with index Count-1, and construction fails with
\* NoConnection when Count is 0 or the index lies outside 0..Count-1.
C11_ConnectionResolvesIndex ==
    (call.op = "Connection" /\ call.running) =>
        LET count == Len(call.connections)
            id == call.connection_id
        IN IF count = 0 \/ (id.some /\ id.v \notin 0..(count - 1))
           THEN /\ ret.t = "raise"
                /\ ret.exc = "NoSapConnectionException"
                /\ ~conn.alive
           ELSE /\ ret = Return(call.connections[IF id.some THEN id.v + 1
                                                 ELSE count])
                /\ conn.alive
                /\ conn.connection = ret.v

\* C21: looking up on a Connection a name it does not define itself
\* terminates after a bounded number of forwarding steps, with the value of
\* the underlying connection handle or with a lookup failure; the
\* forwarding hook is not re-entered for the same lookup until the
\* interpreter gives up.
C21_ConnectionLookupTerminates ==
    (call.op = "Connection.getattr" /\ call.name \notin ConnectionAttributes) =>
        /\ call.entries < MaxDepth
        /\ ret.t = "return" \/ ret.exc = "AttributeError"

====
